---- MODULE Spec2Model ----
(***************************************************************************)
(* A state-machine model of juce_serialport (Windows back end):            *)
(*   SerialPort             - the port handle (open/close/config/cancel)   *)
(*   SerialPortInputStream  - the input worker thread and the client read  *)
(*   SerialPortOutputStream - the output worker thread and client write    *)
(* together with the part of the serial driver the code talks to.          *)
(***************************************************************************)
EXTENDS Integers, Sequences, FiniteSets, TLC

(* ---------------------------------------------------------------------- *)
(* Program constants                                                      *)
(* ---------------------------------------------------------------------- *)

\* the value the code compares portHandle with (the constructor and the
\* failure path of open() store 0; the workers test "port->portHandle")
INVALID_HANDLE == 0

\* what CreateFile returns when the device cannot be opened
INVALID_HANDLE_VALUE == -1

\* SerialPortOutputStream::writeBufferSize
writeBufferSize == 128

\* '\n' and the string terminator
NEWLINE == 10

NUL == 0

\* a byte that is a letter, one that String::trim() takes for whitespace,
\* and one that does not fit a signed char
LETTER == 97

BLANK == 32

HIGHBYTE == 200

(* ---------------------------------------------------------------------- *)
(* Bounds of the model                                                    *)
(* ---------------------------------------------------------------------- *)

\* OS handles one SerialPort object may acquire over its life
MaxOpens == 2

\* bytes the device receives from the line
MaxRx == 2

\* bytes the client submits with write()
MaxSubmit == 2

\* longest single write() / read() request
MaxWriteLen == 2

MaxReadLen == 2

\* bytes the input worker must read in one go, without leaving its do/while,
\* for the 5000 ms of waitForThreadToExit() to pass meanwhile
JoinPatience == 2

\* overlapped writes the driver holds at one time
MaxInFlight == 1

\* bytes the device accepts, or holds in overlapped writes, in total
MaxAccept == 3

\* characters readNextLine() collects before the model stops following it
MaxLine == 2

\* setConfig() calls that return true
MaxSets == 1

(* ---------------------------------------------------------------------- *)
(* Input sets                                                             *)
(* ---------------------------------------------------------------------- *)

\* "COM1" is a device of the system, "NOPORT" is a path with no device
Paths == {"COM1", "NOPORT"}

DevicePaths == {"COM1"}

\* the failure points of open(), and success
OpenOutcomes == {"CreateFile", "GetCommTimeouts", "SetCommTimeouts", "SetCommMask", "ok"}

\* bytes on the line: the two terminators the stream looks for; each is an
\* ordinary byte for the scan that looks for the other
RxBytes == {NEWLINE, NUL}

\* bytes on the line for readNextLine(): the newline, a letter, a blank
LineBytes == {NEWLINE, LETTER, BLANK}

\* bytes on the line for the notifications: one below 128, one above
NotifyBytes == {NUL, HIGHBYTE}

Min2(a, b) == IF a < b THEN a ELSE b

IsPrefix(s, t) == /\ Len(s) <= Len(t)
                  /\ \A i \in 1..Len(s) : s[i] = t[i]

VARIABLES
  \* ---- SerialPort ----
  portAlive,      \* the SerialPort object exists (constructed, not destroyed)
  portHandle,     \* SerialPort::portHandle
  canceled,       \* SerialPort::canceled
  \* ---- operating system / driver ----
  osHandles,      \* device handles acquired by the object and not yet released
  handlesAcquired,\* number of handles CreateFile has handed out
  staleClose,     \* CloseHandle was called on a handle that was not open
  devFaulty,      \* the device may fail the I/O requests of the workers
  devSlow,        \* the device may take longer than 1000 ms over a write
  devDcb,         \* the control block (DCB) the driver holds for the device
  clientConfig,   \* the SerialPortConfig object the last getConfig() was given, after the call
  hConfig,        \* the configurations of the setConfig() calls that returned
                  \* true, in order (bounded by MaxSets)
  rxQueue,        \* bytes the driver has received and ReadFile has not returned
  rxLatched,      \* an EV_RXCHAR event occurred that no WaitCommEvent consumed
  wceArmed,       \* an overlapped WaitCommEvent is outstanding
  rxCount,        \* bytes received so far (bounded by MaxRx)
  \* ---- SerialPortInputStream ----
  inLife,         \* "none", "alive", "dtorSignalled", "dtorCancelled", "destroyed"
  inShouldExit,   \* Thread::threadShouldExit() of the input worker
  inPc,           \* position of SerialPortInputStream::run()
  ioPending,      \* run()'s local ioPending
  ovEvent,        \* run()'s ov.hEvent is signalled
  inC,            \* run()'s local c, the byte ReadFile returned
  inBuffer,       \* SerialPortInputStream::buffer
  inNumBuffered,  \* SerialPortInputStream::numBufferedBytes (bufferedbytes)
  joinReads,      \* bytes the worker has read since waitForThreadToExit() began
  inLock,         \* who holds SerialPortInputStream::bufferCriticalSection:
                  \* "free" or "worker" (a client call holds it within one step)
  notify,         \* SerialPortInputStream::notify: "off", "onChar", "always"
  notifyChar,     \* SerialPortInputStream::notifyChar, a char
  charSigned,     \* the build's plain char is signed
  hNotified,      \* the number of sendChangeMessage() calls of the worker
  lineActive,     \* a readNextLine() is in its loop
  lineS,          \* readNextLine()'s s
  lineC,          \* readNextLine()'s c
  \* ---- SerialPortOutputStream ----
  outLife,        \* "none", "alive", "dtorSignalled", "dtorCancelled", "destroyed"
  outShouldExit,  \* Thread::threadShouldExit() of the output worker
  outPc,          \* position of SerialPortOutputStream::run()
  outBuffer,      \* SerialPortOutputStream::buffer
  outNumBuffered, \* SerialPortOutputStream::numBufferedBytes (bufferedbytes)
  triggerWrite,   \* SerialPortOutputStream::triggerWrite is signalled
  outLock,        \* who holds SerialPortOutputStream::bufferCriticalSection:
                  \* "free", "worker" or "client"
  writing,        \* the bytes of the write() that is inside its critical
                  \* section (<<>> when none is)
  tempbuffer,     \* run()'s tempbuffer[0 .. bytestowrite-1] while an iteration uses it
  lastError,      \* GetLastError() on the output worker's thread
  byteswritten,   \* run()'s byteswritten while an iteration uses it
  ovWEvent,       \* run()'s ov.hEvent is signalled
  ovResult,       \* the byte count the driver last stored in run()'s ov
  devInFlight,    \* overlapped writes the driver has taken and not completed
  \* ---- history ----
  devAccepted,    \* bytes the device has accepted, in order
  hWriteFailed,   \* a WriteFile of the output worker has failed
  hSubmitted,     \* bytes write() has accepted from the client, in order; the
                  \* i-th byte submitted is written i, as run() never looks at
                  \* the value of a byte
  hRead,          \* bytes ReadFile returned to the input worker, in order
  hDelivered,     \* bytes read() returned to the client, in order
  \* ---- the client's view ----
  ret             \* the client call the last step completed, with its result
                  \* (NoRet after a step of a worker, the driver or a destructor)

portVars == <<portAlive, portHandle, canceled>>
osVars   == <<osHandles, handlesAcquired, staleClose, devFaulty, devSlow>>
rxVars   == <<rxQueue, rxLatched, wceArmed, rxCount>>
inVars   == <<inLife, inShouldExit, inPc, ioPending, ovEvent, inC, inBuffer, inNumBuffered, joinReads>>
histVars == <<hRead, hDelivered>>
inNote   == <<notify, notifyChar, charSigned, hNotified>>
inLine   == <<lineActive, lineS, lineC>>
inExt    == <<inLock, inNote, inLine>>

cfgVars  == <<devDcb, clientConfig, hConfig>>
outCore  == <<outLife, outShouldExit, outPc, outBuffer, outNumBuffered, triggerWrite,
              tempbuffer, lastError, byteswritten>>
txDev    == <<devInFlight, ovWEvent, ovResult>>
outHist  == <<devAccepted, hSubmitted, hWriteFailed>>
outSync  == <<outLock, writing>>
outVars  == <<outCore, outSync, txDev, outHist>>

vars == <<portVars, osVars, cfgVars, rxVars, inVars, inExt, histVars, outVars, ret>>

Ret(op, arg, val, data) == [op |-> op, arg |-> arg, val |-> val, data |-> data]

NoRet == Ret("none", 0, 0, <<>>)

(* ---------------------------------------------------------------------- *)
(* juce::MemoryBlock, as far as the streams use it (0-based offsets)      *)
(* ---------------------------------------------------------------------- *)

\* MemoryBlock::ensureSize (minimumSize)
ensureSize(b, n) ==
  IF Len(b) < n THEN b \o [i \in 1..(n - Len(b)) |-> 0] ELSE b

\* buffer[i] = c
setByte(b, i, c) == [b EXCEPT ![i + 1] = c]

\* a removeSection that leaves the bytes where they are
removeSectionKeep(b, start, num) == b

\* MemoryBlock::removeSection (startByte, numBytesToRemove)
removeSection(b, start, num) ==
  IF start + num >= Len(b)
    THEN SubSeq(b, 1, start)
    ELSE SubSeq(b, 1, start) \o SubSeq(b, start + num + 1, Len(b))

\* an append that puts the new bytes in front of the block
appendFront(b, data) == data \o b

\* MemoryBlock::append (data, numBytes)
append(b, data) == b \o data

\* memcpy (dest, buffer.getData(), n)
memcpy(b, n) == SubSeq(b, 1, n)

(* ---------------------------------------------------------------------- *)
(* SerialPort                                                             *)
(* ---------------------------------------------------------------------- *)

\* SerialPort::exists()
exists == portHandle # INVALID_HANDLE

\* the handle is one the OS still has open
HandleLive(h) == h \in osHandles

\* CloseHandle (h) on the port's device handle: releases h when it is open;
\* the driver drops what it had received and completes its outstanding
\* requests (WaitCommEvent, WriteFile) as cancelled, which signals the
\* events of their OVERLAPPEDs
CloseHandle(h) ==
  /\ osHandles' = osHandles \ {h}
  /\ staleClose' = (staleClose \/ h \notin osHandles)
  /\ IF h \in osHandles
       THEN /\ rxQueue' = <<>>
            /\ rxLatched' = FALSE
            /\ wceArmed' = FALSE
            /\ ovEvent' = (ovEvent \/ wceArmed)
            /\ devInFlight' = <<>>
            /\ ovWEvent' = (ovWEvent \/ devInFlight # <<>>)
            /\ ovResult' = IF devInFlight # <<>> THEN 0 ELSE ovResult
       ELSE UNCHANGED <<rxQueue, rxLatched, wceArmed, ovEvent, txDev>>

\* SerialPort::close(), as a relation on the port and OS state
closeBody ==
  IF portHandle # INVALID_HANDLE
    THEN /\ CloseHandle(portHandle)
         /\ portHandle' = INVALID_HANDLE
    ELSE UNCHANGED <<portHandle, osHandles, staleClose, rxQueue, rxLatched, wceArmed, ovEvent, txDev>>

\* an open() that leaves CreateFile's failure value in portHandle
OpenFailedHandleKept == INVALID_HANDLE_VALUE

\* what open() stores in portHandle when CreateFile fails
OpenFailedHandle == 0

\* CreateFile (path, GENERIC_READ | GENERIC_WRITE, 0, ...): the handle it
\* returns.  The share mode is 0, so it fails while a handle to the device
\* is open, as it does for a path without a device
CreateFile(path, outcome) ==
  IF outcome = "CreateFile" \/ path \notin DevicePaths \/ osHandles # {}
    THEN INVALID_HANDLE_VALUE
    ELSE handlesAcquired + 1

\* the native call of open() that fails ("ok" when none does)
openFailurePoint(path, outcome) ==
  IF CreateFile(path, outcome) = INVALID_HANDLE_VALUE THEN "CreateFile" ELSE outcome

\* the value open() returns
openResult(path, outcome) ==
  /\ CreateFile(path, outcome) # INVALID_HANDLE_VALUE
  /\ outcome = "ok"

\* SerialPort::open (newPortPath); outcome is the native call that fails
open(path, outcome) ==
  /\ portAlive
  /\ handlesAcquired < MaxOpens
  /\ openFailurePoint(path, outcome) = outcome
  /\ canceled' = FALSE
  /\ LET h == CreateFile(path, outcome) IN
       IF h = INVALID_HANDLE_VALUE
         THEN /\ portHandle' = OpenFailedHandle
              /\ UNCHANGED <<osHandles, handlesAcquired, rxQueue, rxLatched, wceArmed>>
         ELSE /\ portHandle' = h
              /\ osHandles' = osHandles \cup {h}
              /\ handlesAcquired' = handlesAcquired + 1
              /\ rxQueue' = <<>>
              /\ rxLatched' = FALSE
              /\ wceArmed' = FALSE
  /\ ret' = Ret("open", path, openResult(path, outcome), <<openFailurePoint(path, outcome)>>)
  /\ UNCHANGED <<portAlive, staleClose, devFaulty, devSlow, rxCount, inVars, histVars, inExt>>
  /\ UNCHANGED <<cfgVars, outVars>>

\* SerialPort::close()
close ==
  /\ portAlive
  /\ closeBody
  /\ ret' = Ret("close", 0, 0, <<>>)
  /\ UNCHANGED <<portAlive, canceled, handlesAcquired, devFaulty, devSlow, rxCount>>
  /\ UNCHANGED <<inLife, inShouldExit, inPc, ioPending, inC, inBuffer, inNumBuffered, joinReads, histVars, inExt>>
  /\ UNCHANGED <<cfgVars, outCore, outSync, outHist>>

\* SerialPort::~SerialPort(); the streams that point at the port are gone
destroyPort ==
  /\ portAlive
  /\ inLife \in {"none", "destroyed"}
  /\ inPc \in {"idle", "exited"}
  /\ outLife \in {"none", "destroyed"}
  /\ outPc \in {"idle", "exited"}
  /\ portAlive' = FALSE
  /\ closeBody
  /\ ret' = Ret("~SerialPort", 0, 0, <<>>)
  /\ UNCHANGED <<canceled, handlesAcquired, devFaulty, devSlow, rxCount>>
  /\ UNCHANGED <<inLife, inShouldExit, inPc, ioPending, inC, inBuffer, inNumBuffered, joinReads, histVars, inExt>>
  /\ UNCHANGED <<cfgVars, outCore, outSync, outHist>>

\* SerialPort::cancel()
cancel ==
  /\ portAlive
  /\ canceled' = TRUE
  /\ ret' = Ret("cancel", 0, 0, <<>>)
  /\ UNCHANGED <<portAlive, portHandle, osVars, rxVars, inVars, histVars, inExt>>
  /\ UNCHANGED <<cfgVars, outVars>>

(* ---------------------------------------------------------------------- *)
(* SerialPortConfig and the translation to and from the native DCB        *)
(* ---------------------------------------------------------------------- *)

Parities == {"none", "odd", "even", "space", "mark"}

StopBitsValues == {"one", "oneAndHalf", "two"}

FlowControls == {"none", "hardware", "xOnxOff"}

SerialPortConfig(bps, databits, parity, stopbits, flowcontrol) ==
  [bps |-> bps, databits |-> databits, parity |-> parity,
   stopbits |-> stopbits, flowcontrol |-> flowcontrol]

\* the configurations the client passes to setConfig() and getConfig()
Configs ==
  {SerialPortConfig(9600, 8, "none", "one", "none"),
   SerialPortConfig(9600, 9600, "odd", "two", "hardware"),
   SerialPortConfig(19200, 7, "mark", "oneAndHalf", "xOnxOff")}

\* every configuration of one of two baud rates with 8 data bits, or with
\* the 9600 data bits of a default-constructed SerialPortConfig
AllConfigs ==
  {SerialPortConfig(b[1], b[2], p, s, f) :
     b \in {<<9600, 8>>, <<19200, 9600>>},
     p \in Parities, s \in StopBitsValues, f \in FlowControls}

\* (BYTE) x
BYTE(x) == x % 256

\* the DCB setConfig() builds from config
toDCB(config) ==
  [BaudRate |-> config.bps,
   ByteSize |-> BYTE(config.databits),
   fBinary  |-> 1,
   XonLim   |-> 2048,
   XoffLim  |-> 512,
   fParity  |-> config.parity \in {"odd", "even", "mark", "space"},
   Parity   |-> CASE config.parity = "odd"   -> "ODDPARITY"
                  [] config.parity = "even"  -> "EVENPARITY"
                  [] config.parity = "mark"  -> "MARKPARITY"
                  [] config.parity = "space" -> "SPACEPARITY"
                  [] OTHER                   -> "NOPARITY",
   StopBits |-> CASE config.stopbits = "oneAndHalf" -> "ONE5STOPBITS"
                  [] config.stopbits = "two"        -> "TWOSTOPBITS"
                  [] OTHER                          -> "ONESTOPBIT",
   fOutxCtsFlow |-> IF config.flowcontrol = "hardware" THEN 1 ELSE 0,
   fOutxDsrFlow |-> IF config.flowcontrol = "hardware" THEN 1 ELSE 0,
   fDtrControl  |-> IF config.flowcontrol = "hardware"
                      THEN "DTR_CONTROL_HANDSHAKE" ELSE "DTR_CONTROL_ENABLE",
   fOutX        |-> IF config.flowcontrol = "xOnxOff" THEN 1 ELSE 0,
   fInX         |-> IF config.flowcontrol = "xOnxOff" THEN 1 ELSE 0,
   fRtsControl  |-> IF config.flowcontrol = "hardware"
                      THEN "RTS_CONTROL_HANDSHAKE" ELSE "RTS_CONTROL_ENABLE"]

\* a reading of the flow control that knows no handshake lines
flowcontrolNoHandshake(dcb) ==
  IF dcb.fOutX = 1 /\ dcb.fInX = 1 THEN "xOnxOff" ELSE "none"

\* the flow control getConfig() reads out of dcb
flowcontrolOf(dcb) ==
  IF dcb.fOutX = 1 /\ dcb.fInX = 1
    THEN "xOnxOff"
    ELSE IF /\ dcb.fDtrControl = "DTR_CONTROL_HANDSHAKE"
            /\ dcb.fRtsControl = "RTS_CONTROL_HANDSHAKE"
           THEN "hardware"
           ELSE "none"

\* the configuration getConfig() reads out of dcb
fromDCB(dcb) ==
  [bps      |-> dcb.BaudRate,
   databits |-> dcb.ByteSize,
   parity   |-> CASE dcb.Parity = "ODDPARITY"   -> "odd"
                  [] dcb.Parity = "EVENPARITY"  -> "even"
                  [] dcb.Parity = "MARKPARITY"  -> "mark"
                  [] dcb.Parity = "SPACEPARITY" -> "space"
                  [] OTHER                      -> "none",
   stopbits |-> CASE dcb.StopBits = "ONE5STOPBITS" -> "oneAndHalf"
                  [] dcb.StopBits = "TWOSTOPBITS"  -> "two"
                  [] OTHER                         -> "one",
   flowcontrol |-> flowcontrolOf(dcb)]

\* the control block of a device nobody has configured yet
DriverDefaultDCB == toDCB(SerialPortConfig(9600, 8, "none", "one", "none"))

\* the value setConfig() returns; native is whether SetCommState succeeds
setConfigResult(config, native) ==
  IF portHandle = INVALID_HANDLE
    THEN FALSE
    ELSE native /\ HandleLive(portHandle)

\* SerialPort::setConfig (config)
setConfig(config, native) ==
  /\ portAlive
  /\ setConfigResult(config, native) => Len(hConfig) < MaxSets
  /\ devDcb' = IF setConfigResult(config, native) THEN toDCB(config) ELSE devDcb
  /\ hConfig' = IF setConfigResult(config, native) THEN Append(hConfig, config) ELSE hConfig
  /\ ret' = Ret("setConfig", 0, setConfigResult(config, native), <<>>)
  /\ UNCHANGED <<portVars, osVars, clientConfig, rxVars, inVars, histVars, inExt>>
  /\ UNCHANGED outVars

\* the value getConfig() returns; native is whether GetCommState succeeds
getConfigResult(native) ==
  IF portHandle = INVALID_HANDLE
    THEN FALSE
    ELSE native /\ HandleLive(portHandle)

\* SerialPort::getConfig (config); d is the object the client passes in
getConfig(d, native) ==
  /\ portAlive
  /\ clientConfig' = IF getConfigResult(native) THEN fromDCB(devDcb) ELSE d
  /\ ret' = Ret("getConfig", d, getConfigResult(native), <<>>)
  /\ UNCHANGED <<portVars, osVars, devDcb, hConfig, rxVars, inVars, histVars, inExt>>
  /\ UNCHANGED outVars

(* ---------------------------------------------------------------------- *)
(* The serial driver: a byte arrives on the line                          *)
(* ---------------------------------------------------------------------- *)

DevRx(b) ==
  /\ HandleLive(portHandle)
  /\ rxCount < MaxRx
  /\ rxCount' = rxCount + 1
  /\ rxQueue' = Append(rxQueue, b)
  /\ IF wceArmed
       THEN /\ wceArmed' = FALSE
            /\ ovEvent' = TRUE
            /\ UNCHANGED rxLatched
       ELSE /\ rxLatched' = TRUE
            /\ UNCHANGED <<wceArmed, ovEvent>>
  /\ UNCHANGED <<portVars, osVars, histVars, inExt>>
  /\ UNCHANGED <<inLife, inShouldExit, inPc, ioPending, inC, inBuffer, inNumBuffered, joinReads>>
  /\ ret' = NoRet
  /\ UNCHANGED <<cfgVars, outVars>>

(* ---------------------------------------------------------------------- *)
(* SerialPortInputStream: construction, destruction, cancel               *)
(* ---------------------------------------------------------------------- *)

\* SerialPortInputStream (port): startThread()
InConstruct ==
  /\ portAlive
  /\ inLife = "none"
  /\ inLife' = "alive"
  /\ inPc' = "loop"
  /\ UNCHANGED <<portVars, osVars, rxVars, histVars, inExt>>
  /\ UNCHANGED <<inShouldExit, ioPending, ovEvent, inC, inBuffer, inNumBuffered, joinReads>>
  /\ ret' = NoRet
  /\ UNCHANGED <<cfgVars, outVars>>

\* SerialPortInputStream::cancel(), as a relation on the port
InCancelBody ==
  IF portHandle = INVALID_HANDLE
    THEN UNCHANGED canceled
    ELSE canceled' = TRUE

\* SerialPortInputStream::cancel() called by the client
InCancel ==
  /\ inLife = "alive"
  /\ InCancelBody
  /\ ret' = Ret("in.cancel", 0, 0, <<>>)
  /\ UNCHANGED <<portAlive, portHandle, osVars, rxVars, inVars, histVars, inExt>>
  /\ UNCHANGED <<cfgVars, outVars>>

\* ~SerialPortInputStream(): signalThreadShouldExit()
InDtorSignal ==
  /\ inLife = "alive"
  /\ ~lineActive
  /\ inLife' = "dtorSignalled"
  /\ inShouldExit' = TRUE
  /\ UNCHANGED <<portVars, osVars, rxVars, histVars, inExt>>
  /\ UNCHANGED <<inPc, ioPending, ovEvent, inC, inBuffer, inNumBuffered, joinReads>>
  /\ ret' = NoRet
  /\ UNCHANGED <<cfgVars, outVars>>

\* ~SerialPortInputStream(): cancel()
InDtorCancel ==
  /\ inLife = "dtorSignalled"
  /\ inLife' = "dtorCancelled"
  /\ InCancelBody
  /\ UNCHANGED <<portAlive, portHandle, osVars, rxVars, histVars, inExt>>
  /\ UNCHANGED <<inShouldExit, inPc, ioPending, ovEvent, inC, inBuffer, inNumBuffered, joinReads>>
  /\ ret' = NoRet
  /\ UNCHANGED <<cfgVars, outVars>>

\* Every wait of the input worker is bounded by 100 ms and followed by
\* threadShouldExit(), except the do/while of run(), which goes on for as
\* long as bytes keep arriving.  The 5000 ms of waitForThreadToExit() can
\* pass only while the worker stays in that loop: it has read JoinPatience
\* bytes since the wait began and has another one at hand.
InReadLoopBusy ==
  /\ joinReads >= JoinPatience
  /\ inPc \in {"append", "appendLocked"}

\* ~SerialPortInputStream(): waitForThreadToExit (5000) returns, because the
\* thread has exited or because the 5000 ms have passed
InDtorJoin ==
  /\ inLife = "dtorCancelled"
  /\ inPc = "exited" \/ InReadLoopBusy
  /\ inLife' = "destroyed"
  /\ UNCHANGED <<portVars, osVars, rxVars, histVars, inExt>>
  /\ UNCHANGED <<inShouldExit, inPc, ioPending, ovEvent, inC, inBuffer, inNumBuffered, joinReads>>
  /\ ret' = NoRet
  /\ UNCHANGED <<cfgVars, outVars>>


(* ---------------------------------------------------------------------- *)
(* SerialPortInputStream::run(), one action per step of the worker        *)
(* ---------------------------------------------------------------------- *)

inRest == <<inLife, inShouldExit, inBuffer, inNumBuffered, joinReads>>

\* a loop test that also leaves the loop once cancel() has been called
InLoopCondCanceled == portHandle # 0 /\ ~inShouldExit /\ ~canceled

\* while (port != INVALID_HANDLE && port->portHandle && ! threadShouldExit())
InLoopCond == portHandle # 0 /\ ~inShouldExit

\* the test of the while loop; leaving the loop ends the thread
InLoop ==
  /\ inPc = "loop"
  /\ inPc' = IF InLoopCond
               THEN (IF ioPending THEN "wait" ELSE "wce")
               ELSE "exited"
  /\ UNCHANGED <<portVars, osVars, rxVars, histVars, inExt, inRest, ioPending, ovEvent, inC>>
  /\ ret' = NoRet
  /\ UNCHANGED <<cfgVars, outVars>>

\* WaitCommEvent (port->portHandle, &dwEventMask, &ov) and the test of its
\* result; r is what the driver does with the request
InWaitCommEvent(r) ==
  /\ inPc = "wce"
  /\ r = "done"    => HandleLive(portHandle) /\ ~wceArmed /\ rxLatched
  /\ r = "pending" => HandleLive(portHandle) /\ ~wceArmed /\ ~rxLatched
  /\ r = "error"   => ~HandleLive(portHandle) \/ wceArmed \/ devFaulty
  /\ CASE r = "done" ->
            /\ rxLatched' = FALSE
            /\ ovEvent' = TRUE
            /\ ioPending' = TRUE
            /\ inPc' = "wait"
            /\ UNCHANGED <<portVars, osVars, rxQueue, wceArmed, txDev>>
       [] r = "pending" ->
            /\ wceArmed' = TRUE
            /\ ovEvent' = FALSE
            /\ ioPending' = TRUE
            /\ inPc' = "wait"
            /\ UNCHANGED <<portVars, osVars, rxQueue, rxLatched, txDev>>
       [] r = "error" ->
            /\ closeBody
            /\ inPc' = "exited"
            /\ UNCHANGED <<portAlive, canceled, handlesAcquired, devFaulty, devSlow, ioPending>>
  /\ UNCHANGED <<rxCount, histVars, inExt, inRest, inC>>
  /\ ret' = NoRet
  /\ UNCHANGED <<cfgVars, outCore, outSync, outHist>>

\* WaitForSingleObject (ov.hEvent, 100): signalled, or the 100 ms pass
InWait ==
  /\ inPc = "wait"
  /\ inPc' = IF ovEvent THEN "getmask" ELSE "loop"
  /\ UNCHANGED <<portVars, osVars, rxVars, histVars, inExt, inRest, ioPending, ovEvent, inC>>
  /\ ret' = NoRet
  /\ UNCHANGED <<cfgVars, outVars>>

\* GetCommMask (port->portHandle, &dwMask); when it fails the body is
\* skipped and ResetEvent (ov.hEvent) runs with ioPending still true
InGetCommMask(r) ==
  /\ inPc = "getmask"
  /\ r = "ok"    => HandleLive(portHandle)
  /\ r = "error" => ~HandleLive(portHandle) \/ devFaulty
  /\ IF r = "ok"
       THEN /\ inPc' = "readfile"
            /\ UNCHANGED ovEvent
       ELSE /\ inPc' = "loop"
            /\ ovEvent' = FALSE
  /\ UNCHANGED <<portVars, osVars, rxVars, histVars, inExt, inRest, ioPending, inC>>
  /\ ret' = NoRet
  /\ UNCHANGED <<cfgVars, outVars>>

\* ReadFile (port->portHandle, &c, 1, &bytesread, &ovRead) of the do/while.
\* With the timeouts open() sets, ReadFile returns at once with the bytes
\* already received; bytesread is 0 when there is none or the call fails.
\* On bytesread == 0 the loop ends: ioPending = false, ResetEvent (ov.hEvent)
InReadFile(r) ==
  /\ inPc = "readfile"
  /\ r = "byte"  => HandleLive(portHandle) /\ rxQueue # <<>>
  /\ r = "none"  => HandleLive(portHandle) /\ rxQueue = <<>>
  /\ r = "error" => ~HandleLive(portHandle) \/ devFaulty
  /\ IF r = "byte"
       THEN /\ inC' = Head(rxQueue)
            /\ rxQueue' = Tail(rxQueue)
            /\ hRead' = Append(hRead, Head(rxQueue))
            /\ inPc' = "append"
            /\ joinReads' = IF inLife = "dtorCancelled"
                              THEN Min2(joinReads + 1, JoinPatience)
                              ELSE joinReads
            /\ UNCHANGED <<ioPending, ovEvent>>
       ELSE /\ ioPending' = FALSE
            /\ ovEvent' = FALSE
            /\ inPc' = "loop"
            /\ UNCHANGED <<inC, rxQueue, hRead, joinReads>>
  /\ UNCHANGED <<portVars, osVars, rxLatched, wceArmed, rxCount, hDelivered, inLife, inShouldExit, inBuffer, inNumBuffered, inExt>>
  /\ ret' = NoRet
  /\ UNCHANGED <<cfgVars, outVars>>

\* the buffer after the worker has stored c behind the buffered bytes
InStore(b, n, c) == setByte(ensureSize(b, n + 1), n, c)

\* (char) b: the value a plain char has when it holds the byte b
asChar(b) == IF charSigned /\ b >= 128 THEN b - 256 ELSE b

\* notify == NOTIFY_ALWAYS || ((notify == NOTIFY_ON_CHAR) && (c == notifyChar))
\* with c an unsigned char and notifyChar a char, both promoted to int
InNotifies(c) ==
  notify = "always" \/ (notify = "onChar" /\ c = notifyChar)

\* if (bytesread == 1) { const ScopedLock l (bufferCriticalSection);
\* the lock is taken, which waits while a client call holds it
InAppendEnter ==
  /\ inPc = "append"
  /\ inLock = "free"
  /\ inLock' = "worker"
  /\ inPc' = "appendLocked"
  /\ UNCHANGED <<portVars, osVars, rxVars, histVars, inRest, ioPending, ovEvent, inC, inNote, inLine>>
  /\ ret' = NoRet
  /\ UNCHANGED <<cfgVars, outVars>>

\* the lock still held when the do/while goes back to ReadFile
InAppendLockKept == "worker"

\* the lock at the end of the ScopedLock block
InAppendLockAfter == "free"

\* buffer.ensureSize; buffer[n] = c; n++; if (...) sendChangeMessage(); }
InAppend ==
  /\ inPc = "appendLocked"
  /\ inBuffer' = InStore(inBuffer, inNumBuffered, inC)
  /\ inNumBuffered' = inNumBuffered + 1
  /\ hNotified' = IF InNotifies(inC) THEN hNotified + 1 ELSE hNotified
  /\ inLock' = InAppendLockAfter
  /\ inPc' = "readfile"
  /\ UNCHANGED <<portVars, osVars, rxVars, histVars, inLife, inShouldExit, ioPending, ovEvent, inC, joinReads>>
  /\ UNCHANGED <<notify, notifyChar, charSigned, inLine>>
  /\ ret' = NoRet
  /\ UNCHANGED <<cfgVars, outVars>>

InWorker ==
  \/ InLoop
  \/ \E r \in {"done", "pending", "error"} : InWaitCommEvent(r)
  \/ InWait
  \/ \E r \in {"ok", "error"} : InGetCommMask(r)
  \/ \E r \in {"byte", "none", "error"} : InReadFile(r)
  \/ InAppendEnter
  \/ InAppend

(* ---------------------------------------------------------------------- *)
(* SerialPortInputStream: the client's calls                              *)
(* ---------------------------------------------------------------------- *)

\* the number of bytes read() takes: maxBytesToRead clipped to bufferedbytes
readCount(n) == IF n > inNumBuffered THEN inNumBuffered ELSE n

\* what read() returns when the port is not open
readNotOpen == -1

\* the value read (destBuffer, n) returns
readResult(n) ==
  IF portHandle = INVALID_HANDLE THEN readNotOpen ELSE readCount(n)

\* SerialPortInputStream::read (destBuffer, maxBytesToRead)
read(n) ==
  /\ inLife = "alive"
  /\ IF portHandle = INVALID_HANDLE
       THEN /\ ret' = Ret("read", n, readResult(n), <<>>)
            /\ UNCHANGED <<inBuffer, inNumBuffered, hDelivered>>
       ELSE LET k == readCount(n) IN
            /\ inLock = "free"
            /\ ret' = Ret("read", n, readResult(n), memcpy(inBuffer, k))
            /\ hDelivered' = hDelivered \o memcpy(inBuffer, k)
            /\ inBuffer' = removeSection(inBuffer, 0, k)
            /\ inNumBuffered' = inNumBuffered - k
  /\ UNCHANGED <<portVars, osVars, rxVars, hRead, inLife, inShouldExit, inPc, ioPending, ovEvent, inC, joinReads, inExt>>
  /\ UNCHANGED <<cfgVars, outVars>>

\* a scan that stops one byte short of the buffered bytes
RECURSIVE scanForShort(_, _)
scanForShort(t, i) ==
  IF i + 1 < inNumBuffered
    THEN (IF inBuffer[i + 1] = t THEN TRUE ELSE scanForShort(t, i + 1))
    ELSE FALSE

\* the scan of canReadLine() / canReadString():
\*   while (i < numBufferedBytes) if (buffer[i++] == t) return true;
RECURSIVE scanFor(_, _)
scanFor(t, i) ==
  IF i < inNumBuffered
    THEN (IF inBuffer[i + 1] = t THEN TRUE ELSE scanFor(t, i + 1))
    ELSE FALSE

\* SerialPortInputStream::canReadLine()
canReadLine ==
  /\ inLife = "alive"
  /\ inLock = "free"
  /\ ret' = Ret("canReadLine", 0, scanFor(NEWLINE, 0), <<>>)
  /\ UNCHANGED <<portVars, osVars, rxVars, inVars, histVars, inExt>>
  /\ UNCHANGED <<cfgVars, outVars>>

\* SerialPortInputStream::canReadString()
canReadString ==
  /\ inLife = "alive"
  /\ inLock = "free"
  /\ ret' = Ret("canReadString", 0, scanFor(NUL, 0), <<>>)
  /\ UNCHANGED <<portVars, osVars, rxVars, inVars, histVars, inExt>>
  /\ UNCHANGED <<cfgVars, outVars>>

\* SerialPortInputStream::isExhausted()
isExhausted ==
  /\ inLife = "alive"
  /\ inLock = "free"
  /\ ret' = Ret("isExhausted", 0, inNumBuffered # 0, <<>>)
  /\ UNCHANGED <<portVars, osVars, rxVars, inVars, histVars, inExt>>
  /\ UNCHANGED <<cfgVars, outVars>>

\* SerialPortInputStream::setNotify (type, c), c holding the byte b
setNotify(type, b) ==
  /\ inLife = "alive"
  /\ notify' = type
  /\ notifyChar' = asChar(b)
  /\ ret' = Ret("setNotify", 0, 0, <<>>)
  /\ UNCHANGED <<portVars, osVars, rxVars, inVars, histVars, inLock, charSigned, hNotified, inLine>>
  /\ UNCHANGED <<cfgVars, outVars>>

\* juce::CharacterFunctions::isWhitespace for the characters of one byte
isWhitespace(c) == c \in {9, 10, 11, 12, 13, 32}

\* String::trimStart()
RECURSIVE trimStart(_)
trimStart(str) ==
  IF str # <<>> /\ isWhitespace(Head(str)) THEN trimStart(Tail(str)) ELSE str

\* String::trimEnd()
RECURSIVE trimEnd(_)
trimEnd(str) ==
  IF str # <<>> /\ isWhitespace(str[Len(str)])
    THEN trimEnd(SubSeq(str, 1, Len(str) - 1))
    ELSE str

\* String::trim()
trim(str) == trimEnd(trimStart(str))

\* String::charToString (c): the string of the one character c, which is the
\* empty string for the character 0
charToString(c) == IF c = 0 THEN <<>> ELSE <<c>>

\* readNextLine(): String s; char c = 0; s.preallocateBytes (32)
readNextLine ==
  /\ inLife = "alive"
  /\ ~lineActive
  /\ lineActive' = TRUE
  /\ lineS' = <<>>
  /\ lineC' = 0
  /\ ret' = NoRet
  /\ UNCHANGED <<portVars, osVars, rxVars, inVars, histVars, inLock, inNote>>
  /\ UNCHANGED <<cfgVars, outVars>>

\* one turn of readNextLine()'s loop:
\*   while (read (&c, 1) && (c != '\n')) s.append (String::charToString (c), 1);
\*   return s.trim();
\* read() leaves c alone when it returns -1 or 0
readNextLineTurn ==
  /\ lineActive
  /\ Len(lineS) < MaxLine
  /\ portHandle # INVALID_HANDLE => inLock = "free"
  /\ LET r == readResult(1)
         c == IF r = 1 THEN asChar(inBuffer[1]) ELSE lineC
     IN /\ lineC' = c
        /\ IF r = 1
             THEN /\ hDelivered' = hDelivered \o memcpy(inBuffer, 1)
                  /\ inBuffer' = removeSection(inBuffer, 0, 1)
                  /\ inNumBuffered' = inNumBuffered - 1
             ELSE UNCHANGED <<hDelivered, inBuffer, inNumBuffered>>
        /\ IF r # 0 /\ c # NEWLINE
             THEN /\ lineS' = lineS \o charToString(c)
                  /\ ret' = NoRet
                  /\ UNCHANGED lineActive
             ELSE /\ ret' = Ret("readNextLine", 0, r, trim(lineS))
                  /\ lineActive' = FALSE
                  /\ lineS' = <<>>
  /\ UNCHANGED <<portVars, osVars, rxVars, hRead, inLife, inShouldExit, inPc, ioPending, ovEvent, inC, joinReads, inLock, inNote>>
  /\ UNCHANGED <<cfgVars, outVars>>

InClient ==
  \/ InConstruct
  \/ InCancel
  \/ InDtorSignal
  \/ InDtorCancel
  \/ InDtorJoin
  \/ \E n \in 0..MaxReadLen : read(n)
  \/ canReadLine
  \/ canReadString

(* ---------------------------------------------------------------------- *)
(* SerialPortOutputStream: construction, destruction, cancel, write       *)
(* ---------------------------------------------------------------------- *)

inSide == <<rxVars, inVars, inExt, histVars>>

\* SerialPortOutputStream (port): startThread()
OutConstruct ==
  /\ portAlive
  /\ outLife = "none"
  /\ outLife' = "alive"
  /\ outPc' = "loop"
  /\ ret' = NoRet
  /\ UNCHANGED <<portVars, osVars, cfgVars, inSide, outSync, txDev, outHist>>
  /\ UNCHANGED <<outShouldExit, outBuffer, outNumBuffered, triggerWrite, tempbuffer, lastError, byteswritten>>

\* SerialPortOutputStream::cancel(), as a relation on the port
OutCancelBody ==
  IF portHandle = INVALID_HANDLE
    THEN UNCHANGED canceled
    ELSE canceled' = TRUE

\* SerialPortOutputStream::cancel() called by the client
OutCancel ==
  /\ outLife = "alive"
  /\ OutCancelBody
  /\ ret' = Ret("out.cancel", 0, 0, <<>>)
  /\ UNCHANGED <<portAlive, portHandle, osVars, cfgVars, inSide, outVars>>

\* ~SerialPortOutputStream(): signalThreadShouldExit()
OutDtorSignal ==
  /\ outLife = "alive"
  /\ writing = <<>>
  /\ outLife' = "dtorSignalled"
  /\ outShouldExit' = TRUE
  /\ ret' = NoRet
  /\ UNCHANGED <<portVars, osVars, cfgVars, inSide, outSync, txDev, outHist>>
  /\ UNCHANGED <<outPc, outBuffer, outNumBuffered, triggerWrite, tempbuffer, lastError, byteswritten>>

\* ~SerialPortOutputStream(): cancel()
OutDtorCancel ==
  /\ outLife = "dtorSignalled"
  /\ outLife' = "dtorCancelled"
  /\ OutCancelBody
  /\ ret' = NoRet
  /\ UNCHANGED <<portAlive, portHandle, osVars, cfgVars, inSide, outSync, txDev, outHist>>
  /\ UNCHANGED <<outShouldExit, outPc, outBuffer, outNumBuffered, triggerWrite, tempbuffer, lastError, byteswritten>>

\* ~SerialPortOutputStream(): waitForThreadToExit (5000) returns; every wait
\* of the output worker is bounded by 1000 ms, so the thread has exited
OutDtorJoin ==
  /\ outLife = "dtorCancelled"
  /\ outPc = "exited"
  /\ outLife' = "destroyed"
  /\ ret' = NoRet
  /\ UNCHANGED <<portVars, osVars, cfgVars, inSide, outSync, txDev, outHist>>
  /\ UNCHANGED <<outShouldExit, outPc, outBuffer, outNumBuffered, triggerWrite, tempbuffer, lastError, byteswritten>>

\* the value write (dataToWrite, howManyBytes) returns
writeResult == portHandle # INVALID_HANDLE

\* the next n bytes the client submits
NextData(n) == [i \in 1..n |-> Len(hSubmitted) + i]

\* SerialPortOutputStream::write (dataToWrite, howManyBytes), up to
\* buffer.append: the test of the port; bufferCriticalSection.enter(), which
\* waits while the worker holds the lock; buffer.append
write(data) ==
  /\ outLife = "alive"
  /\ writing = <<>>
  /\ Len(hSubmitted) + Len(data) <= MaxSubmit
  /\ IF portHandle = INVALID_HANDLE
       THEN /\ ret' = Ret("write", Len(data), writeResult, <<>>)
            /\ UNCHANGED <<outBuffer, hSubmitted, outSync>>
       ELSE /\ outLock = "free"
            /\ outLock' = "client"
            /\ writing' = data
            /\ outBuffer' = append(outBuffer, data)
            /\ hSubmitted' = hSubmitted \o data
            /\ ret' = NoRet
  /\ UNCHANGED <<portVars, osVars, cfgVars, inSide, txDev, devAccepted, hWriteFailed>>
  /\ UNCHANGED <<outLife, outShouldExit, outPc, outNumBuffered, triggerWrite, tempbuffer, lastError, byteswritten>>

\* the rest of write(): bufferedbytes += howManyBytes;
\* bufferCriticalSection.exit(); triggerWrite.signal(); return true
writeReturn ==
  /\ writing # <<>>
  /\ outNumBuffered' = outNumBuffered + Len(writing)
  /\ outLock' = "free"
  /\ triggerWrite' = TRUE
  /\ writing' = <<>>
  /\ ret' = Ret("write", Len(writing), TRUE, <<>>)
  /\ UNCHANGED <<portVars, osVars, cfgVars, inSide, txDev, outHist>>
  /\ UNCHANGED <<outLife, outShouldExit, outPc, outBuffer, tempbuffer, lastError, byteswritten>>

OutClient ==
  \/ OutConstruct
  \/ OutCancel
  \/ OutDtorSignal
  \/ OutDtorCancel
  \/ OutDtorJoin
  \/ \E n \in 1..MaxWriteLen : write(NextData(n))
  \/ writeReturn

(* ---------------------------------------------------------------------- *)
(* SerialPortOutputStream::run(), one action per step of the worker       *)
(* ---------------------------------------------------------------------- *)

\* what the worker steps leave alone besides their own locals
outFrame == <<portVars, osVars, cfgVars, inSide, outLife, outShouldExit, writing, outHist>>

\* while (port && port->portHandle && ! threadShouldExit())
OutLoopCond == portHandle # 0 /\ ~outShouldExit

\* the test of the while loop; leaving the loop ends the thread
OutLoop ==
  /\ outPc = "loop"
  /\ outPc' = IF OutLoopCond THEN "checkEmpty" ELSE "exited"
  /\ ret' = NoRet
  /\ UNCHANGED <<outFrame, txDev>>
  /\ UNCHANGED <<outBuffer, outNumBuffered, triggerWrite, tempbuffer, lastError, byteswritten, outLock>>

\* if (! bufferedbytes)   -- read without the lock
OutCheckEmpty ==
  /\ outPc = "checkEmpty"
  /\ outPc' = IF outNumBuffered = 0 THEN "triggerWait" ELSE "checkPending"
  /\ ret' = NoRet
  /\ UNCHANGED <<outFrame, txDev>>
  /\ UNCHANGED <<outBuffer, outNumBuffered, triggerWrite, tempbuffer, lastError, byteswritten, outLock>>

\* triggerWrite.wait (100): the event is signalled (and resets itself), or
\* the 100 ms pass
OutTriggerWait ==
  /\ outPc = "triggerWait"
  /\ triggerWrite' = FALSE
  /\ outPc' = "checkPending"
  /\ ret' = NoRet
  /\ UNCHANGED <<outFrame, txDev>>
  /\ UNCHANGED <<outBuffer, outNumBuffered, tempbuffer, lastError, byteswritten, outLock>>

\* if (bufferedbytes)   -- read without the lock
OutCheckPending ==
  /\ outPc = "checkPending"
  /\ outPc' = IF outNumBuffered # 0 THEN "copy" ELSE "loop"
  /\ ret' = NoRet
  /\ UNCHANGED <<outFrame, txDev>>
  /\ UNCHANGED <<outBuffer, outNumBuffered, triggerWrite, tempbuffer, lastError, byteswritten, outLock>>

\* bytestowrite = bufferedbytes > writeBufferSize ? writeBufferSize : bufferedbytes
bytestowrite(n) == IF n > writeBufferSize THEN writeBufferSize ELSE n

\* byteswritten = 0; bufferCriticalSection.enter(), which waits while a
\* write() holds the lock
OutCopyEnter ==
  /\ outPc = "copy"
  /\ outLock = "free"
  /\ outLock' = "worker"
  /\ byteswritten' = 0
  /\ outPc' = "copyLocked"
  /\ ret' = NoRet
  /\ UNCHANGED <<outFrame, txDev>>
  /\ UNCHANGED <<outBuffer, outNumBuffered, triggerWrite, tempbuffer, lastError>>

\* bytestowrite, memcpy (tempbuffer, ...) under the lock, then
\* bufferCriticalSection.exit().
\* A negative bufferedbytes compares as a huge unsigned number and memcpy
\* reads past the buffer: what the thread does from there is undefined, and
\* the model follows it no further.
OutCopy ==
  /\ outPc = "copyLocked"
  /\ IF outNumBuffered < 0
       THEN /\ outPc' = "undefined"
            /\ UNCHANGED <<tempbuffer, outLock>>
       ELSE /\ tempbuffer' = memcpy(outBuffer, bytestowrite(outNumBuffered))
            /\ outLock' = "free"
            /\ outPc' = "writeFile"
  /\ ret' = NoRet
  /\ UNCHANGED <<outFrame, txDev>>
  /\ UNCHANGED <<outBuffer, outNumBuffered, triggerWrite, lastError, byteswritten>>

\* the test after WriteFile that skips the rest of the iteration
OutSkipAfterWrite(err) ==
  outShouldExit \/ (err # "ERROR_SUCCESS" /\ err # "ERROR_IO_PENDING")

\* where run() goes after WriteFile returned r with last error err
OutAfterWrite(r, err) ==
  IF OutSkipAfterWrite(err)
    THEN "loop"
    ELSE IF r = 0 /\ err = "ERROR_IO_PENDING" THEN "waitOverlapped" ELSE "getResult"

\* the bytes in a sequence of chunks
RECURSIVE TotalLen(_)
TotalLen(chunks) ==
  IF chunks = <<>> THEN 0 ELSE Len(Head(chunks)) + TotalLen(Tail(chunks))

\* the bytes the device has accepted or still holds (bounded by MaxAccept)
TxLoad == Len(devAccepted) + TotalLen(devInFlight)

\* the locals of an iteration (tempbuffer's contents, byteswritten) are dead
\* once the iteration is over: the next one assigns them before it reads them
OutEndIteration(pc) ==
  IF pc = "loop"
    THEN /\ tempbuffer' = <<>>
         /\ byteswritten' = 0
    ELSE UNCHANGED <<tempbuffer, byteswritten>>

\* ResetEvent (ov.hEvent); WriteFile (port->portHandle, tempbuffer,
\* bytestowrite, &byteswritten, &ov) and the tests of its result.
\*   "done":    the driver completes the write at once, with k bytes (it
\*              has no earlier write to finish first)
\*   "pending": the driver takes the write and completes it later
\*   "error":   WriteFile fails
\* A successful WriteFile need not touch the thread's last error: e is the
\* value GetLastError() has afterwards.
OutWriteFile(r, k, e) ==
  /\ outPc = "writeFile"
  /\ r = "done"    => /\ HandleLive(portHandle)
                      /\ devInFlight = <<>>
                      /\ TxLoad + Len(tempbuffer) <= MaxAccept
                      /\ k \in 1..Len(tempbuffer)
                      /\ e \in {lastError, "ERROR_SUCCESS"}
  /\ r = "pending" => /\ HandleLive(portHandle)
                      /\ TxLoad + Len(tempbuffer) <= MaxAccept
                      /\ Len(devInFlight) < MaxInFlight
                      /\ k = 0
                      /\ e = "ERROR_IO_PENDING"
  /\ r = "error"   => /\ ~HandleLive(portHandle) \/ devFaulty
                      /\ k = 0
                      /\ e = "ERROR_GEN_FAILURE"
  /\ CASE r = "done" ->
            /\ devAccepted' = devAccepted \o SubSeq(tempbuffer, 1, k)
            /\ ovWEvent' = TRUE
            /\ ovResult' = k
            /\ UNCHANGED devInFlight
       [] r = "pending" ->
            /\ devInFlight' = Append(devInFlight, tempbuffer)
            /\ ovWEvent' = FALSE
            /\ UNCHANGED <<devAccepted, ovResult>>
       [] r = "error" ->
            /\ ovWEvent' = FALSE
            /\ UNCHANGED <<devAccepted, ovResult, devInFlight>>
  /\ lastError' = e
  /\ hWriteFailed' = (hWriteFailed \/ r = "error")
  /\ outPc' = OutAfterWrite(IF r = "done" THEN 1 ELSE 0, e)
  /\ OutEndIteration(outPc')
  /\ ret' = NoRet
  /\ UNCHANGED <<portVars, osVars, cfgVars, inSide, outLife, outShouldExit, hSubmitted>>
  /\ UNCHANGED <<outBuffer, outNumBuffered, triggerWrite, outSync>>

\* WaitForSingleObject (ov.hEvent, 1000) and the test of its result: the
\* event is signalled, or (with a slow device) the 1000 ms pass
OutWaitOverlapped(signalled) ==
  /\ outPc = "waitOverlapped"
  /\ signalled => ovWEvent
  /\ ~signalled => ~ovWEvent /\ devSlow
  /\ outPc' = IF outShouldExit \/ ~signalled THEN "loop" ELSE "getResult"
  /\ OutEndIteration(outPc')
  /\ ret' = NoRet
  /\ UNCHANGED <<outFrame, txDev>>
  /\ UNCHANGED <<outBuffer, outNumBuffered, triggerWrite, lastError, outLock>>

\* GetOverlappedResult (port->portHandle, &ov, &byteswritten, TRUE): waits
\* for ov.hEvent and stores the count the driver left in ov
OutGetResult ==
  /\ outPc = "getResult"
  /\ ovWEvent
  /\ outPc' = IF ovResult > 0 THEN "remove" ELSE "loop"
  /\ byteswritten' = IF ovResult > 0 THEN ovResult ELSE 0
  /\ tempbuffer' = <<>>
  /\ ret' = NoRet
  /\ UNCHANGED <<outFrame, txDev>>
  /\ UNCHANGED <<outBuffer, outNumBuffered, triggerWrite, lastError, outLock>>

\* if (byteswritten > 0) { const ScopedLock l (bufferCriticalSection);
\* the lock is taken, which waits while a write() holds it
OutRemoveEnter ==
  /\ outPc = "remove"
  /\ outLock = "free"
  /\ outLock' = "worker"
  /\ outPc' = "removeLocked"
  /\ ret' = NoRet
  /\ UNCHANGED <<outFrame, txDev>>
  /\ UNCHANGED <<outBuffer, outNumBuffered, triggerWrite, tempbuffer, lastError, byteswritten>>

\* buffer.removeSection (0, byteswritten); bufferedbytes -= byteswritten; }
\* and the lock is released at the end of the block
OutRemove ==
  /\ outPc = "removeLocked"
  /\ outBuffer' = removeSection(outBuffer, 0, byteswritten)
  /\ outNumBuffered' = outNumBuffered - byteswritten
  /\ outLock' = "free"
  /\ outPc' = "loop"
  /\ OutEndIteration(outPc')
  /\ ret' = NoRet
  /\ UNCHANGED <<outFrame, txDev>>
  /\ UNCHANGED <<triggerWrite, lastError>>

OutWorker ==
  \/ OutLoop
  \/ OutCheckEmpty
  \/ OutTriggerWait
  \/ OutCheckPending
  \/ OutCopyEnter
  \/ OutCopy
  \/ \E r \in {"done", "pending", "error"}, k \in 0..MaxWriteLen,
        e \in {"ERROR_SUCCESS", "ERROR_IO_PENDING", "ERROR_GEN_FAILURE"} : OutWriteFile(r, k, e)
  \/ \E signalled \in BOOLEAN : OutWaitOverlapped(signalled)
  \/ OutGetResult
  \/ OutRemoveEnter
  \/ OutRemove

(* ---------------------------------------------------------------------- *)
(* The serial driver: an overlapped write completes with k bytes          *)
(* ---------------------------------------------------------------------- *)

DevTxComplete(k) ==
  /\ devInFlight # <<>>
  /\ k \in 1..Len(Head(devInFlight))
  /\ devAccepted' = devAccepted \o SubSeq(Head(devInFlight), 1, k)
  /\ devInFlight' = Tail(devInFlight)
  /\ ovWEvent' = TRUE
  /\ ovResult' = k
  /\ ret' = NoRet
  /\ UNCHANGED <<portVars, osVars, cfgVars, inSide, outCore, outSync, hSubmitted, hWriteFailed>>

(* ---------------------------------------------------------------------- *)
(* Properties                                                             *)
(* ---------------------------------------------------------------------- *)

\* C1: as long as no write to the device has failed, the bytes the device
\* has accepted are a prefix of the bytes submitted, in submission order:
\* none reordered, skipped or accepted twice.
C1_OutboundFifo ==
  ~hWriteFailed => IsPrefix(devAccepted, hSubmitted)

\* C2: with a device that reports no error and completes every write within
\* the worker's wait, once write() has returned true the pending bytes are
\* eventually all drained, unless the port is closed, a stop is requested or
\* cancel() is called.
C2_OutputDrains ==
  (~devFaulty /\ ~devSlow) =>
     [](ret.op = "write" /\ ret.val =>
          <>(outNumBuffered = 0 \/ portHandle = INVALID_HANDLE \/ outShouldExit \/ canceled))

\* the inbound bytes that are buffered: those the worker has appended and
\* read() has not yet returned
InHand == IF inPc \in {"append", "appendLocked"} THEN 1 ELSE 0

Buffered == SubSeq(hRead, Len(hDelivered) + 1, Len(hRead) - InHand)

\* C3: the bytes returned by successive read() calls are, in order, a prefix
\* of the bytes the worker read from the device, and every byte the worker
\* read is either delivered already, or buffered (in arrival order), or the
\* one byte the worker holds before appending it: nothing is delivered
\* twice, dropped, reordered or invented.
C3_InboundFifo ==
  /\ IsPrefix(hDelivered, hRead)
  /\ hRead = hDelivered \o SubSeq(inBuffer, 1, inNumBuffered)
                        \o (IF InHand = 1 THEN <<inC>> ELSE <<>>)
  /\ ret.op = "read" /\ ret.val >= 0 =>
       /\ Len(ret.data) = ret.val
       /\ Len(hDelivered) >= ret.val
       /\ ret.data = SubSeq(hDelivered, Len(hDelivered) - ret.val + 1, Len(hDelivered))

\* C3 witness: a second read() has returned the second byte the worker read,
\* after an earlier read() returned the first
C3_Witness ==
  /\ ret.op = "read"
  /\ ret.val = 1
  /\ Len(hDelivered) = 2
  /\ hDelivered[1] # hDelivered[2]

\* C4: read (dest, n) returns min (n, bytes buffered), takes exactly that
\* many bytes out of the buffer, and its result is in 0..n in every state of
\* the port.
C4_ReadResult ==
  [][\A n \in 0..MaxReadLen :
       read(n) => /\ ret'.val = Min2(n, inNumBuffered)
                  /\ ret'.val \in 0..n
                  /\ inNumBuffered' = inNumBuffered - ret'.val]_vars

\* C5: canReadLine() is true exactly when one of the buffered inbound bytes
\* is a newline, canReadString() exactly when one is a zero byte, and
\* neither call changes the buffer or the buffered count.
C5_CanReadLine ==
  /\ ret.op = "canReadLine" =>
       (ret.val <=> \E i \in 1..Len(Buffered) : Buffered[i] = NEWLINE)
  /\ ret.op = "canReadString" =>
       (ret.val <=> \E i \in 1..Len(Buffered) : Buffered[i] = NUL)
  /\ ret.op \in {"canReadLine", "canReadString"} =>
       /\ inNumBuffered = Len(Buffered)
       /\ SubSeq(inBuffer, 1, inNumBuffered) = Buffered

\* C5 witness: canReadLine() has answered true for a buffer whose newline is
\* not its first byte
C5_Witness ==
  /\ ret.op = "canReadLine"
  /\ ret.val = TRUE
  /\ inNumBuffered = 2
  /\ inBuffer[1] # NEWLINE
  /\ inBuffer[2] = NEWLINE

\* C6: after open() on a path that cannot be opened, open() has returned
\* false and exists() is false, and setConfig(), getConfig(), read() and
\* write() answer as for a port that is not open; setConfig() or getConfig()
\* called on the port in that state (as the constructors do) return false.
C6_OpenFailureLeavesPortUnusable ==
  /\ ret.op = "open" /\ ret.data = <<"CreateFile">> =>
       /\ ret.val = FALSE
       /\ ~exists
       /\ \A c \in Configs, native \in BOOLEAN : ~setConfigResult(c, native)
       /\ \A native \in BOOLEAN : ~getConfigResult(native)
       /\ \A n \in 0..MaxReadLen : readResult(n) = readNotOpen
       /\ ~writeResult
  /\ ret.op \in {"setConfig", "getConfig"} /\ ~exists => ret.val = FALSE

\* C6 witness: open() on the path without a device has just returned false
C6_Witness ==
  /\ ret.op = "open"
  /\ ret.arg = "NOPORT"
  /\ ret.val = FALSE
  /\ ~exists

\* C7: whenever open() returns false, exists() is false and the handle the
\* call acquired (if any) is no longer open.
C7_FailedOpenLeavesPortClosed ==
  ret.op = "open" /\ ret.val = FALSE =>
    /\ ~exists
    /\ ret.data # <<"CreateFile">> => ~HandleLive(handlesAcquired)

\* C8: the number of handles the object has acquired and not released is 1
\* when exists() is true and 0 otherwise.
C8_HandleOwnership ==
  Cardinality(osHandles) = IF exists THEN 1 ELSE 0

\* C9: once cancel() has been called while the input worker is in its
\* bounded wait for a device event, the worker eventually exits.
C9_CancelStopsWorker ==
  [](ret.op \in {"cancel", "in.cancel"} /\ inPc = "wait" /\ exists
       => <>(inPc = "exited"))

\* C10: when a stream's destructor has returned, its worker has exited.
C10_WorkerExitedWhenDestroyed ==
  /\ inLife = "destroyed" => inPc = "exited"
  /\ outLife = "destroyed" => outPc = "exited"

\* a step in which cancel() runs: called by the client on the port or on a
\* stream, or by a stream's destructor
CancelStep ==
  \/ ret'.op \in {"cancel", "in.cancel", "out.cancel"}
  \/ inLife = "dtorSignalled" /\ inLife' = "dtorCancelled"
  \/ outLife = "dtorSignalled" /\ outLife' = "dtorCancelled"

\* a worker never goes back: a stop request stays, an exited thread stays
\* exited
NoWayBack ==
  /\ inShouldExit => inShouldExit'
  /\ outShouldExit => outShouldExit'
  /\ inPc = "exited" => inPc' = "exited"
  /\ outPc = "exited" => outPc' = "exited"

OutBlockedPcs == {"triggerWait", "writeFile", "waitOverlapped", "getResult"}

\* the last n bytes of a block
Tail_n(b, n) == SubSeq(b, Len(b) - n + 1, Len(b))

\* C12: write() on an open port takes the buffer lock, appends all the bytes
\* at the tail of the pending buffer, adds their number to the count while
\* nothing else touches the buffer, releases the lock, signals the worker
\* and returns true; the lock it needs is free whenever the worker is idle,
\* between two steps outside its critical sections, blocked on the device
\* or exited, so the call never waits for the device.  On a port that is
\* not open it returns false and leaves buffer and count unchanged.
C12_Write ==
  [][/\ (writing = <<>> /\ writing' # <<>>) =>
          /\ portHandle # INVALID_HANDLE
          /\ outLock' = "client"
          /\ outBuffer' = outBuffer \o writing'
          /\ outNumBuffered' = outNumBuffered
     /\ writing # <<>> =>
          /\ outLock = "client"
          /\ outBuffer' = outBuffer
          /\ Tail_n(outBuffer, Len(writing)) = writing
          /\ \/ outNumBuffered' = outNumBuffered
             \/ ret'.op = "write"
     /\ (writing # <<>> /\ writing' = <<>>) =>
          /\ ret' = Ret("write", Len(writing), TRUE, <<>>)
          /\ outNumBuffered' = outNumBuffered + Len(writing)
          /\ triggerWrite'
          /\ outLock' = "free"
          /\ outPc' = outPc
     /\ (ret'.op = "write" /\ ret'.val = TRUE /\ ret' # ret) =>
          writing # <<>> /\ writing' = <<>>
     /\ (ret'.op = "write" /\ ret'.val = FALSE /\ ret' # ret) =>
          /\ portHandle = INVALID_HANDLE
          /\ UNCHANGED <<outBuffer, outNumBuffered, outLock, writing, triggerWrite>>
     /\ (outLife = "alive" /\ writing = <<>>
           /\ outPc \in OutBlockedPcs \cup {"idle", "loop", "checkEmpty", "checkPending", "copy", "remove", "exited"}) =>
          outLock = "free"
    ]_vars

\* C12 witness: a write() has returned true behind bytes that were already
\* pending, while the worker waits for an overlapped write to complete
C12_Witness ==
  /\ ret.op = "write"
  /\ ret.val = TRUE
  /\ outNumBuffered > ret.arg
  /\ outPc = "waitOverlapped"

\* the bytes of a sequence after its last newline
RECURSIVE AfterLastNewline(_)
AfterLastNewline(h) ==
  IF h = <<>> \/ h[Len(h)] = NEWLINE
    THEN <<>>
    ELSE Append(AfterLastNewline(SubSeq(h, 1, Len(h) - 1)), h[Len(h)])

\* C13: when readNextLine() returns, the last byte it took from the buffer
\* is a newline, and the string it returns is made of exactly the bytes it
\* took before that newline, back to the newline before (or to the first
\* byte): it returns no partial line and takes no byte of a line whose
\* newline has not arrived.  (Only readNextLine() takes bytes here.)
C13_ReadNextLine ==
  ret.op = "readNextLine" =>
    /\ hDelivered # <<>>
    /\ hDelivered[Len(hDelivered)] = NEWLINE
    /\ ret.data = AfterLastNewline(SubSeq(hDelivered, 1, Len(hDelivered) - 1))

\* C14: isExhausted() returns true exactly when no inbound byte is buffered.
C14_IsExhausted ==
  ret.op = "isExhausted" => (ret.val <=> (inNumBuffered = 0))

\* the notification mode asks for a notification of the byte c: the mode is
\* always, or it is onChar and c is the byte setNotify() was given
NotificationDue(c) ==
  notify = "always" \/ (notify = "onChar" /\ asChar(c) = notifyChar)

\* C15: the step of the worker that appends a byte calls sendChangeMessage()
\* once if the mode is always, or onChar with the byte equal to the trigger
\* byte, and not at all otherwise (never with the mode off); the byte is in
\* the buffer, last of the buffered bytes, when the call is made; and no
\* other step notifies.
C15_Notification ==
  [][IF inNumBuffered' = inNumBuffered + 1
       THEN /\ hNotified' = (IF NotificationDue(inC) THEN hNotified + 1 ELSE hNotified)
            /\ notify = "off" => hNotified' = hNotified
            /\ inBuffer'[inNumBuffered'] = inC
       ELSE hNotified' = hNotified
    ]_vars

\* C16: a step of the input worker in which a native call fails
\* (WaitCommEvent, GetCommMask after the event fired, ReadFile) closes the
\* port and ends the worker's loop: the port is closed after the step, and
\* the worker has left the loop or is at the loop test, which the closed
\* port makes it leave.
C16_InputFailureEndsWorker ==
  [][(\/ InWaitCommEvent("error")
      \/ InGetCommMask("error")
      \/ InReadFile("error")) =>
       /\ portHandle' = INVALID_HANDLE
       /\ inPc' \in {"exited", "loop"}
    ]_vars

\* C17: a WriteFile that fails while no stop is requested leaves the worker
\* in its loop and the pending buffer and its count as they were; and with
\* a device that completes every write within the worker's wait, failures
\* or not, the device accepts the submitted bytes in order, each once: after
\* a failure the worker goes on from the first byte the device has not
\* accepted.
C17_OutputRetry ==
  /\ [][(\E k \in 0..MaxWriteLen, e \in {"ERROR_GEN_FAILURE"} :
            OutWriteFile("error", k, e) /\ ~outShouldExit) =>
          /\ outPc' = "loop"
          /\ UNCHANGED <<outBuffer, outNumBuffered>>
       ]_vars
  /\ [](~devSlow => IsPrefix(devAccepted, hSubmitted))

\* the positions of run() in which the input worker is inside, or about to
\* enter, WaitCommEvent, WaitForSingleObject, GetCommMask or ReadFile
InBlockedPcs == {"wce", "wait", "getmask", "readfile"}

C19_AccessUnderLock ==
  [][/\ (OutCheckEmpty \/ OutCheckPending \/ OutCopy \/ OutRemove) =>
          outLock # "client" /\ writing = <<>>
     /\ (OutCopy \/ OutRemove) => outLock = "worker"
     /\ InAppend => inLock = "worker"
    ]_vars

\* the input worker is running its loop on an open port with a live handle
InRunning ==
  /\ inPc \notin {"idle", "exited"}
  /\ ~inShouldExit
  /\ portHandle # INVALID_HANDLE
  /\ HandleLive(portHandle)

\* the worker polls ov.hEvent with nothing left that could signal it: it
\* takes a wait to be outstanding, and the driver holds none
InDeaf ==
  /\ InRunning
  /\ inPc \in {"loop", "wait"}
  /\ ioPending
  /\ ~ovEvent
  /\ ~wceArmed

\* C20: while the input worker runs on an open port, every byte the driver
\* has received is eventually appended to the inbound buffer (or the port
\* is closed, or the worker is told to stop); the worker never calls
\* WaitCommEvent while an earlier one is outstanding; and it is never left
\* polling its event with no WaitCommEvent outstanding.
C20_InputDelivery ==
  /\ (rxQueue # <<>>) ~> ((rxQueue = <<>> /\ InHand = 0) \/ ~InRunning)
  /\ [](inPc = "wce" => ~wceArmed)
  /\ [](~InDeaf)

\* a worker leaves a position of run() at which it passes port->portHandle
\* to the system: WaitCommEvent, GetCommMask, ReadFile of the input worker;
\* WriteFile, GetOverlappedResult of the output worker
NativeCallStep ==
  \/ inPc \in {"wce", "getmask", "readfile"} /\ inPc' # inPc
  \/ outPc \in {"writeFile", "getResult"} /\ outPc' # outPc

\* C21: every native call a worker makes on the port's handle is made while
\* the port holds a handle that is open: none after close() or after the
\* port was closed on a failure.
C21_NoUseOfClosedHandle ==
  [][NativeCallStep => portHandle # INVALID_HANDLE /\ HandleLive(portHandle)]_vars

\* C22: a readNextLine() that has been called returns.
C22_ReadNextLineTerminates ==
  lineActive ~> ~lineActive

\* the native field ByteSize holds the value n
FitsByte(n) == n >= 0 /\ n < 256

\* C23: after a getConfig() that returned true, the object it filled agrees
\* with the configuration of the last setConfig() that returned true in
\* baud rate, parity, stop bits and flow control, and in data bits when
\* these fit a byte; a getConfig() that returned false left the object as
\* it was; and on a port that is not open both calls return false.
C23_ConfigRoundTrip ==
  /\ (ret.op = "getConfig" /\ ret.val = TRUE /\ hConfig # <<>>) =>
       LET c == hConfig[Len(hConfig)] IN
       /\ clientConfig.bps = c.bps
       /\ clientConfig.parity = c.parity
       /\ clientConfig.stopbits = c.stopbits
       /\ clientConfig.flowcontrol = c.flowcontrol
       /\ FitsByte(c.databits) => clientConfig.databits = c.databits
  /\ (ret.op = "getConfig" /\ ret.val = FALSE) => clientConfig = ret.arg
  /\ (ret.op \in {"setConfig", "getConfig"} /\ portHandle = INVALID_HANDLE) => ret.val = FALSE

\* C23 witness: a getConfig() has returned true and filled an object that
\* held something else with the configuration set before, which has mark
\* parity, one and a half stop bits and hardware flow control
C23_Witness ==
  /\ ret.op = "getConfig"
  /\ ret.val = TRUE
  /\ hConfig # <<>>
  /\ hConfig[Len(hConfig)] = SerialPortConfig(9600, 8, "mark", "oneAndHalf", "hardware")
  /\ clientConfig = hConfig[Len(hConfig)]
  /\ clientConfig # ret.arg

(* ---------------------------------------------------------------------- *)
(* Specifications                                                         *)
(* ---------------------------------------------------------------------- *)

Init ==
  /\ portAlive = TRUE
  /\ portHandle = 0
  /\ canceled \in BOOLEAN
  /\ osHandles = {}
  /\ handlesAcquired = 0
  /\ staleClose = FALSE
  /\ devFaulty \in BOOLEAN
  /\ devSlow \in BOOLEAN
  /\ devDcb = DriverDefaultDCB
  /\ clientConfig = SerialPortConfig(9600, 8, "none", "one", "none")
  /\ hConfig = <<>>
  /\ rxQueue = <<>>
  /\ rxLatched = FALSE
  /\ wceArmed = FALSE
  /\ rxCount = 0
  /\ inLife = "none"
  /\ inShouldExit = FALSE
  /\ inPc = "idle"
  /\ ioPending = FALSE
  /\ ovEvent = FALSE
  /\ inC = 0
  /\ inBuffer = <<>>
  /\ inNumBuffered = 0
  /\ joinReads = 0
  /\ outLife = "none"
  /\ outShouldExit = FALSE
  /\ outPc = "idle"
  /\ outBuffer = <<>>
  /\ outNumBuffered = 0
  /\ triggerWrite = FALSE
  /\ outLock = "free"
  /\ writing = <<>>
  /\ inLock = "free"
  /\ notify = "off"
  /\ notifyChar = 0
  /\ charSigned \in BOOLEAN
  /\ hNotified = 0
  /\ lineActive = FALSE
  /\ lineS = <<>>
  /\ lineC = 0
  /\ tempbuffer = <<>>
  /\ lastError = "ERROR_SUCCESS"
  /\ byteswritten = 0
  /\ ovWEvent = FALSE
  /\ ovResult = 0
  /\ devInFlight = <<>>
  /\ devAccepted = <<>>
  /\ hWriteFailed = FALSE
  /\ hSubmitted = <<>>
  /\ hRead = <<>>
  /\ hDelivered = <<>>
  /\ ret = NoRet

NextPort ==
  \/ \E p \in Paths, o \in OpenOutcomes : open(p, o)
  \/ close
  \/ destroyPort
  \/ cancel

NextConfig ==
  \/ \E c \in Configs, native \in BOOLEAN : setConfig(c, native)
  \/ \E d \in Configs, native \in BOOLEAN : getConfig(d, native)

\* the signedness of plain char shows in the comparison with notifyChar
\* alone, which only a stream with notifications makes: elsewhere one build
\* stands for both
InitPlain == Init /\ charSigned

\* setConfig() with every configuration; getConfig() into an object that
\* holds one of two
NextConfigAll ==
  \/ \E c \in AllConfigs, native \in BOOLEAN : setConfig(c, native)
  \/ \E d \in {SerialPortConfig(9600, 9600, "none", "one", "none"),
                SerialPortConfig(19200, 8, "even", "two", "xOnxOff")},
        native \in BOOLEAN : getConfig(d, native)

\* the port object opened, closed and configured
SpecConfig == InitPlain /\ [][NextPort \/ NextConfigAll]_vars

\* the port object alone: open, close, configure, cancel, destroy
SpecPort == InitPlain /\ [][NextPort \/ NextConfig]_vars

NextDevRx == \E b \in RxBytes : DevRx(b)

NextDevRxLine == \E b \in LineBytes : DevRx(b)

NextDevRxNotify == \E b \in NotifyBytes : DevRx(b)

NextDevTx == \E k \in 1..MaxWriteLen : DevTxComplete(k)

\* the port, the output stream, its worker and the sending side of the driver
NextOut == NextPort \/ OutClient \/ OutWorker \/ NextDevTx

SpecOut == InitPlain /\ [][NextOut]_vars

\* the output worker is scheduled, and the driver completes what it has taken
FairSpecOut == SpecOut /\ WF_vars(OutWorker) /\ WF_vars(NextDevTx)

\* the port, the input stream, its worker and the receiving side of the driver
NextIn == NextPort \/ InClient \/ InWorker \/ NextDevRx

\* devSlow is about overlapped writes only: the receiving side never reads it
InitIn == InitPlain /\ ~devSlow

\* the calls of the client that read lines, next to those of the port and
\* the constructor
InLineClient ==
  \/ InConstruct
  \/ canReadLine
  \/ isExhausted
  \/ readNextLine
  \/ readNextLineTurn

\* the port, the input stream read line by line, its worker, the driver
NextInLine == NextPort \/ InLineClient \/ InWorker \/ NextDevRxLine

SpecInLine == InitIn /\ [][NextInLine]_vars

\* the input worker and the thread inside readNextLine() are scheduled
FairSpecInLine == SpecInLine /\ WF_vars(InWorker) /\ WF_vars(readNextLineTurn)

\* the calls of the client that set the notification and read
InNotifyClient ==
  \/ InConstruct
  \/ \E b \in NotifyBytes : setNotify("onChar", b)
  \/ \E type \in {"off", "always"} : setNotify(type, NUL)
  \/ \E n \in 1..MaxReadLen : read(n)

\* the port, the input stream with notifications, its worker, the driver
NextInNotify == NextPort \/ InNotifyClient \/ InWorker \/ NextDevRxNotify

InitNotify == Init /\ ~devSlow

SpecInNotify == InitNotify /\ [][NextInNotify]_vars

SpecIn == InitIn /\ [][NextIn]_vars

\* the input worker is scheduled
FairSpecIn == SpecIn /\ WF_vars(InWorker)

Next == NextPort \/ NextConfig \/ NextConfigAll \/ InClient \/ InLineClient \/ InNotifyClient \/ InWorker
          \/ NextDevRx \/ NextDevRxLine \/ NextDevRxNotify \/ OutClient \/ OutWorker \/ NextDevTx

Spec == Init /\ [][Next]_vars

====
